---- MODULE Spec2Model ----
(***************************************************************************)
(* A model of KineticToolkit's flat-file result database (class ResDB of   *)
(* resdb.py; DataDB of datadb.py is the same code without `subset` and     *)
(* without get_prop).  The state is the files on disk, the database object *)
(* the program holds, and the outcome of the last call; `call` is the call *)
(* a query specification draws at its start and then applies.              *)
(*                                                                         *)
(* Python values are modelled as follows.  A data point (a dict) is a      *)
(* function from a subset of Keys to integers.  A list is a sequence; the  *)
(* indices the code hands out (enumerate) are Python's, starting at 0.     *)
(* An exception is the name of its class in the field `exc` of an outcome, *)
(* with its message in `msg`; exc = "" is a normal return.  An attribute   *)
(* that was never assigned (self.content) is has_content = FALSE, and      *)
(* reading it raises AttributeError.                                       *)
(***************************************************************************)
EXTENDS Integers, Sequences, FiniteSets, TLC

VARIABLES fs, db, last, call

vars == <<fs, db, last, call>>

(***************************************************************************)
(* Bounds of the model.                                                    *)
(***************************************************************************)
\* Longest content of a database in the specification of the queries.
MaxLen == 3
\* Longest content of a database in the specification with the files.
MaxStored == 2

(***************************************************************************)
(* Data points, criteria and the other inputs.                             *)
(***************************************************************************)
Keys == {"x", "e"}

\* The data points the query specification appends and scans.
RecordPool ==
    { [x |-> 1], [x |-> 2], [x |-> 1, e |-> 100], [x |-> 1, e |-> 105] }

\* The data points the specification with the files appends.
StoredPool == { [x |-> 1] }

\* The value of one keyword of **crit: absent, a plain value, or a callable.
NoCrit == [tag |-> "absent", val |-> 0, fn |-> ""]
Lit(v) == [tag |-> "lit", val |-> v, fn |-> ""]
Pred(f) == [tag |-> "callable", val |-> 0, fn |-> f]

\* The callables of the model: lambda _: True (the one get_prop installs) and
\* lambda v: v - 1, whose result is not a bool and is falsy exactly at v = 1.
Call(f, v) == IF f = "any" THEN 1 ELSE v - 1

\* Python's truth value of an integer (True is 1, False is 0).
Truthy(r) == r # 0

CritVals == { NoCrit, Lit(1), Lit(100), Pred("any"), Pred("minus1") }

\* **crit: one value per key, NoCrit for a keyword that is not passed.
Crits == [Keys -> CritVals]

NoCriteria == [k \in Keys |-> NoCrit]

\* An optional argument left at None, or given.
None == [given |-> FALSE, name |-> ""]
Some(n) == [given |-> TRUE, name |-> n]
NoSubset == [given |-> FALSE, items |-> <<>>]
Subset(s) == [given |-> TRUE, items |-> s]

SubsetPool ==
    { NoSubset,
      Subset(<<>>),
      Subset(<<[x |-> 2], [x |-> 1, e |-> 100], [x |-> 1], [x |-> 1]>>) }

(***************************************************************************)
(* Files.  A file is absent or holds a text; the YAML codec is the library *)
(* the code calls, modelled by what the code relies on: a text is empty,   *)
(* or is not YAML, or is a YAML document with a layout (the indentation    *)
(* the dumper was given) and a node; load returns the node and forgets the *)
(* layout.  A node is null, a list of data points, a mapping, or a scalar. *)
(***************************************************************************)
Paths == {"db", "db.bak", "out"}

\* A path open() cannot create: its directory does not exist.
BadPath == "nodir/out"

Node(t, s) == [type |-> t, items |-> s]
Text(f, i, n) == [fmt |-> f, indent |-> i, node |-> n]
EmptyText == Text("empty", 0, Node("null", <<>>))
Absent == [exists |-> FALSE, text |-> EmptyText]
File(t) == [exists |-> TRUE, text |-> t]

\* yaml.dump(content, stream, Dumper=Dumper, **yaml_style)
Dump(content, yaml_style) ==
    Text("yaml", yaml_style.indent, Node("list", content))

\* yaml.load(input_file, Loader=Loader): raises YAMLError, or returns the
\* node (None for an empty file).
Load(text) ==
    IF text.fmt = "garbage"
    THEN [exc |-> "YAMLError", val |-> Node("null", <<>>)]
    ELSE [exc |-> "", val |-> text.node]

\* A file exists at the path.
IsFile(files, path) == path \in DOMAIN files /\ files[path].exists

\* isinstance(input_content, abc.Sequence): a list is one, and so is a str.
IsSequence(val) == val.type \in {"list", "str"}

\* What the bound file may hold before the program starts.
InitFiles ==
    { Absent,
      File(EmptyText),
      File(Text("garbage", 0, Node("null", <<>>))),
      File(Text("yaml", 2, Node("dict", <<>>))),
      File(Text("yaml", 2, Node("int", <<>>))),
      File(Text("yaml", 2, Node("str", <<>>))),
      File(Text("yaml", 2, Node("list", <<[x |-> 2], [x |-> 1]>>))) }

(***************************************************************************)
(* The database object and the outcome of a call.                          *)
(***************************************************************************)
DefaultIndent == 4

NoDB ==
    [exists |-> FALSE, file_name |-> "", has_content |-> FALSE,
     content |-> <<>>, yaml_style |-> [indent |-> 0]]

\* **kwargs of the constructor: nothing, or indent=2.
NoKwargs == [has_indent |-> FALSE, indent |-> 0]
StyleKwargs == { NoKwargs, [has_indent |-> TRUE, indent |-> 2] }

\* The outcome of a call: the exception raised ("" for a return), its
\* message, what was printed, and the value returned: a list in `items`
\* (a returned data point or pair is the one element of it), a number in
\* `num`.
Outcome(exc, msg, printed, items, num) ==
    [exc |-> exc, msg |-> msg, printed |-> printed, items |-> items,
     num |-> num]
Return == Outcome("", "", "", <<>>, 0)
Raise(exc, msg) == Outcome(exc, msg, "", <<>>, 0)

MsgInvalidContent ==
    "Invalid content in YAML file {}!\nA list of data points are needed!"
MsgInvalidYaml == "Invalid YAML file {}!"
MsgCannotOpen == "Cannot open the output file {}"
MsgNoContent == "'ResDB' object has no attribute 'content'"

(***************************************************************************)
(* ResDB.__init__                                                          *)
(***************************************************************************)
\* The object and the outcome of ResDB(file_name, **kwargs) over `files`.
\* `obj` is the object as far as it was built when the constructor ended.
init(files, file_name, kwargs) ==
    LET named == [NoDB EXCEPT !.exists = TRUE, !.file_name = file_name]
        styled(o) ==
            [o EXCEPT !.yaml_style =
                [indent |-> IF kwargs.has_indent THEN kwargs.indent
                            ELSE DefaultIndent]]
        empty == [named EXCEPT !.has_content = TRUE, !.content = <<>>]
        input == Load(files[file_name].text)
    IN  IF ~IsFile(files, file_name)
        THEN \* open() raises IOError: caught
             [obj |-> styled(empty), out |-> Return]
        ELSE IF input.exc # ""
        THEN [obj |-> named,
              out |-> Outcome("YAMLError", "", MsgInvalidYaml, <<>>, 0)]
        ELSE IF input.val.type = "null"
        THEN \* raise IOError(): caught
             [obj |-> styled(empty), out |-> Return]
        ELSE IF ~IsSequence(input.val)
        THEN [obj |-> named, out |-> Raise("TypeError", MsgInvalidContent)]
        ELSE \* nothing assigns self.content on this path
             [obj |-> styled(named), out |-> Return]

(***************************************************************************)
(* ResDB.save                                                              *)
(***************************************************************************)
\* copyfile as it would be if a missing source were skipped in silence.
copyfile_skip_missing(files, src, dst) ==
    IF ~IsFile(files, src)
    THEN [fs |-> files, out |-> Return]
    ELSE [fs |-> [files EXCEPT ![dst] = files[src]], out |-> Return]

\* shutil.copyfile(src, dst): opens src first, so a missing src raises
\* before dst is touched.
copyfile(files, src, dst) ==
    IF ~IsFile(files, src)
    THEN [fs |-> files, out |-> Raise("FileNotFoundError", src)]
    ELSE [fs |-> [files EXCEPT ![dst] = files[src]], out |-> Return]

\* bak_source as it would be if the file about to be overwritten were the
\* one backed up.
bak_source_dest(self, file_name) ==
    IF ~file_name.given THEN self.file_name ELSE file_name.name

\* The file the backup is a copy of: shutil.copyfile(self.file_name, ...)
bak_source(self, file_name) == self.file_name

\* self.save(file_name, bak_suffix) over `files`: the files afterwards and
\* the outcome.
save(self, files, file_name, bak_suffix) ==
    LET backed ==
            IF bak_suffix # ""
            THEN copyfile(files, bak_source(self, file_name),
                          self.file_name \o bak_suffix)
            ELSE [fs |-> files, out |-> Return]
        dest == IF ~file_name.given THEN self.file_name ELSE file_name.name
    IN  IF backed.out.exc # ""
        THEN backed
        ELSE IF dest \notin Paths
        THEN [fs |-> backed.fs,
              out |-> Outcome("FileNotFoundError", dest, MsgCannotOpen,
                              <<>>, 0)]
        ELSE IF ~self.has_content
        THEN \* open(file_name, 'w') has truncated the file
             [fs |-> [backed.fs EXCEPT ![dest] = File(EmptyText)],
              out |-> Raise("AttributeError", MsgNoContent)]
        ELSE [fs |-> [backed.fs EXCEPT ![dest] =
                        File(Dump(self.content, self.yaml_style))],
              out |-> Return]

(***************************************************************************)
(* ResDB.append_data                                                       *)
(***************************************************************************)
append_data(self, data) ==
    IF ~self.has_content
    THEN [obj |-> self, out |-> Raise("AttributeError", MsgNoContent)]
    ELSE [obj |-> [self EXCEPT !.content = Append(self.content, data)],
          out |-> Return]

(***************************************************************************)
(* ResDB.filter_data                                                       *)
(***************************************************************************)
\* crit.items(): the keywords that were passed.
CritItems(crit) == { k \in Keys : crit[k].tag # "absent" }

\* isinstance(v, abc.Callable)
IsCallable(v) == v.tag = "callable"

\* passes as it would be with any() in the place of all().
passes_any(data, crit) ==
    \E k \in CritItems(crit) :
        /\ k \in DOMAIN data
        /\ IF IsCallable(crit[k])
           THEN Truthy(Call(crit[k].fn, data[k]))
           ELSE data[k] = crit[k].val

\* all(k in data and (v(data[k]) if callable else data[k] == v) ...)
passes(data, crit) ==
    \A k \in CritItems(crit) :
        /\ k \in DOMAIN data
        /\ IF IsCallable(crit[k])
           THEN Truthy(Call(crit[k].fn, data[k]))
           ELSE data[k] = crit[k].val

\* One element of the comprehension's result.
element(keep_idx, idx, data) == IF keep_idx THEN <<idx, data>> ELSE data

\* The list comprehension over enumerate(scanned), from position idx on.
RECURSIVE comprehension(_, _, _, _)
comprehension(scanned, idx, keep_idx, crit) ==
    IF idx >= Len(scanned)
    THEN <<>>
    ELSE LET data == scanned[idx + 1]
             rest == comprehension(scanned, idx + 1, keep_idx, crit)
         IN  IF passes(data, crit)
             THEN <<element(keep_idx, idx, data)>> \o rest
             ELSE rest

\* self.content if subset is None else subset
scanned_list(self, subset) ==
    IF ~subset.given THEN self.content ELSE subset.items

\* self.filter_data(keep_idx, subset, **crit)
filter_data(self, keep_idx, subset, crit) ==
    IF ~subset.given /\ ~self.has_content
    THEN Raise("AttributeError", MsgNoContent)
    ELSE Outcome("", "", "",
                 comprehension(scanned_list(self, subset), 0, keep_idx, crit),
                 0)

(***************************************************************************)
(* **kwargs handed on to filter_data: keep_idx and subset when the caller  *)
(* passed them, and the criteria.                                          *)
(***************************************************************************)
Kwargs(keep_idx, subset, crit) ==
    [has_keep_idx |-> keep_idx.given, keep_idx |-> keep_idx.value,
     subset |-> subset, crit |-> crit]

NoFlag == [given |-> FALSE, value |-> FALSE]
Flag(b) == [given |-> TRUE, value |-> b]

\* The criteria alone, as the documentation describes the calls.
CriteriaOnly(kwargs) == ~kwargs.has_keep_idx /\ ~kwargs.subset.given

\* self.filter_data(**kwargs)
filter_kwargs(self, kwargs) ==
    filter_data(self, kwargs.has_keep_idx /\ kwargs.keep_idx, kwargs.subset,
                kwargs.crit)

(***************************************************************************)
(* ResDB.get_data                                                          *)
(***************************************************************************)
MsgNoData == "No data point is found satisfying the criteria!"
MsgMultipleData == "Multiple data points are found satisfying the criteria!"

\* get_data as it would be without the test for more than one data point.
get_data_first(self, kwargs) ==
    LET all_data == filter_kwargs(self, kwargs)
    IN  IF all_data.exc # ""
        THEN all_data
        ELSE IF Len(all_data.items) < 1
        THEN Raise("ValueError", MsgNoData)
        ELSE Outcome("", "", "", <<all_data.items[1]>>, 0)

get_data(self, kwargs) ==
    LET all_data == filter_kwargs(self, kwargs)
    IN  IF all_data.exc # ""
        THEN all_data
        ELSE IF Len(all_data.items) < 1
        THEN Raise("ValueError", MsgNoData)
        ELSE IF Len(all_data.items) > 1
        THEN Raise("ValueError", MsgMultipleData)
        ELSE Outcome("", "", "", <<all_data.items[1]>>, 0)

(***************************************************************************)
(* ResDB.get_prop                                                          *)
(***************************************************************************)
MsgMoreThanOne == "More than one value has been found for {}"
MsgExceeds == "The range of {} exceeds tolerance"
MsgMaxEmpty == "max() arg is an empty sequence"
MsgTupleIndex == "tuple indices must be integers or slices, not str"
MsgNotIterable == "'int' object is not iterable"

\* max(prop_vals) and min(prop_vals) of a non-empty list
Max(vals) ==
    CHOOSE m \in { vals[i] : i \in DOMAIN vals } :
        \A i \in DOMAIN vals : vals[i] <= m
Min(vals) ==
    CHOOSE m \in { vals[i] : i \in DOMAIN vals } :
        \A i \in DOMAIN vals : m <= vals[i]

get_prop(self, prop, tol, kwargs) ==
    LET \* kwargs[prop] = lambda _: True
        crit == [kwargs.crit EXCEPT ![prop] = Pred("any")]
        data_pnts == filter_kwargs(self, [kwargs EXCEPT !.crit = crit])
        pairs == kwargs.has_keep_idx /\ kwargs.keep_idx
        prop_vals == [i \in DOMAIN data_pnts.items |->
                        data_pnts.items[i][prop]]
    IN  IF data_pnts.exc # ""
        THEN data_pnts
        ELSE IF pairs /\ Len(data_pnts.items) > 0
        THEN \* i[prop] on a pair (idx, data)
             Raise("TypeError", MsgTupleIndex)
        ELSE IF Len(prop_vals) = 1
        THEN Outcome("", "", "", <<>>, prop_vals[1])
        ELSE IF tol = 0
        THEN Raise("ValueError", MsgMoreThanOne)
        ELSE IF Len(prop_vals) = 0
        THEN \* max([])
             Raise("ValueError", MsgMaxEmpty)
        ELSE IF Max(prop_vals) - Min(prop_vals) > tol
        THEN Raise("ValueError", MsgExceeds)
        ELSE \* sum(range_) of a number
             Raise("TypeError", MsgNotIterable)

(***************************************************************************)
(* ResDB.remove_data                                                       *)
(***************************************************************************)
\* The interpreter's message, with the method's qualified name.
MsgMultipleValues ==
    "KineticToolkit.resdb.ResDB.filter_data() got multiple values for keyword argument 'keep_idx'"

\* kept as it would be if the data points were deleted one at a time, in
\* ascending order, each at the index found before any deletion.
RECURSIVE kept_stale(_, _, _)
kept_stale(content, i, idxes) ==
    IF idxes = {}
    THEN content
    ELSE LET m == CHOOSE a \in idxes : \A b \in idxes : a <= b
             left == IF m < Len(content)
                     THEN SubSeq(content, 1, m)
                            \o SubSeq(content, m + 2, Len(content))
                     ELSE content
         IN  kept_stale(left, i, idxes \ {m})

\* [v for i, v in enumerate(content) if i not in idxes], from position i on
RECURSIVE kept(_, _, _)
kept(content, i, idxes) ==
    IF i >= Len(content)
    THEN <<>>
    ELSE IF i \in idxes
    THEN kept(content, i + 1, idxes)
    ELSE <<content[i + 1]>> \o kept(content, i + 1, idxes)

\* self.remove_data(**crit): the object afterwards and the outcome.
remove_data(self, kwargs) ==
    LET found == filter_data(self, TRUE, kwargs.subset, kwargs.crit)
        idxes == [i \in DOMAIN found.items |-> found.items[i][1]]
    IN  IF kwargs.has_keep_idx
        THEN \* filter_data(keep_idx=True, **crit) with keep_idx in crit
             [obj |-> self, out |-> Raise("TypeError", MsgMultipleValues)]
        ELSE IF found.exc # ""
        THEN [obj |-> self, out |-> found]
        ELSE IF ~self.has_content
        THEN [obj |-> self, out |-> Raise("AttributeError", MsgNoContent)]
        ELSE [obj |-> [self EXCEPT !.content =
                        kept(self.content, 0,
                             { idxes[i] : i \in DOMAIN idxes })],
              out |-> Outcome("", "", "", <<>>, Len(idxes))]

(***************************************************************************)
(* The program: calls on one database variable, `db = ResDB(...)` binding  *)
(* it anew.  A constructor that raises leaves the variable as it was.      *)
(***************************************************************************)
Called(op, args, out) == [op |-> op, args |-> args] @@ out

NoCall == Called("", [none |-> TRUE], Return)

Init ==
    /\ fs \in { [p \in Paths |-> IF p = "db" THEN f ELSE Absent] :
                f \in InitFiles }
    /\ db = NoDB
    /\ last = NoCall
    /\ call = NoCall

Construct ==
    \E file_name \in {"db"}, kwargs \in StyleKwargs :
        LET r == init(fs, file_name, kwargs)
        IN  /\ db' = IF r.out.exc = "" THEN r.obj ELSE db
            /\ last' = Called("init",
                              [file_name |-> file_name, kwargs |-> kwargs],
                              r.out)
            /\ UNCHANGED <<fs, call>>

Save ==
    /\ db.exists
    /\ \E file_name \in {None, Some("out"), Some("db.bak"), Some(BadPath)},
          bak_suffix \in {"", ".bak"} :
        LET r == save(db, fs, file_name, bak_suffix)
        IN  /\ fs' = r.fs
            /\ last' = Called("save",
                              [file_name |-> file_name,
                               bak_suffix |-> bak_suffix],
                              r.out)
            /\ UNCHANGED <<db, call>>

\* AppendData as it would be if append_data wrote the new content through
\* to the bound file.
AppendDataWriteThrough(pool, bound) ==
    /\ db.exists
    /\ Len(db.content) < bound
    /\ \E data \in pool :
        LET r == append_data(db, data)
        IN  /\ db' = r.obj
            /\ last' = Called("append_data", [data |-> data], r.out)
            /\ fs' = IF r.out.exc = ""
                     THEN [fs EXCEPT ![db.file_name] =
                            File(Dump(r.obj.content, db.yaml_style))]
                     ELSE fs
            /\ UNCHANGED call

AppendData(pool, bound) ==
    /\ db.exists
    /\ Len(db.content) < bound
    /\ \E data \in pool :
        LET r == append_data(db, data)
        IN  /\ db' = r.obj
            /\ last' = Called("append_data", [data |-> data], r.out)
            /\ UNCHANGED <<fs, call>>

FilterData(kwset) ==
    /\ db.exists
    /\ \E kwargs \in kwset :
        /\ last' = Called("filter_data", kwargs, filter_kwargs(db, kwargs))
        /\ UNCHANGED <<fs, db, call>>

GetData(kwset) ==
    /\ db.exists
    /\ \E kwargs \in kwset :
        /\ last' = Called("get_data", kwargs, get_data(db, kwargs))
        /\ UNCHANGED <<fs, db, call>>

GetProp(props, tols, kwset) ==
    /\ db.exists
    /\ \E prop \in props, tol \in tols, kwargs \in kwset :
        /\ last' = Called("get_prop",
                          [prop |-> prop, tol |-> tol] @@ kwargs,
                          get_prop(db, prop, tol, kwargs))
        /\ UNCHANGED <<fs, db, call>>

RemoveData(kwset) ==
    /\ db.exists
    /\ \E kwargs \in kwset :
        LET r == remove_data(db, kwargs)
        IN  /\ db' = r.obj
            /\ last' = Called("remove_data", kwargs, r.out)
            /\ UNCHANGED <<fs, call>>

(***************************************************************************)
(* The program with its files: every call, on few data points.             *)
(***************************************************************************)
StoredCrits == { NoCriteria, [NoCriteria EXCEPT !["x"] = Lit(1)] }

StoredKwargs == { Kwargs(NoFlag, NoSubset, c) : c \in StoredCrits }

StoredTols == {10}

StoredAppend == AppendData(StoredPool, MaxStored)
StoredFilter == FilterData(StoredKwargs)
StoredGetData == GetData(StoredKwargs)
StoredGetProp == GetProp(Keys, StoredTols, StoredKwargs)
StoredRemove == RemoveData(StoredKwargs)

Next ==
    \/ Construct
    \/ Save
    \/ StoredAppend
    \/ StoredRemove
    \/ StoredFilter
    \/ StoredGetData
    \/ StoredGetProp

Spec == Init /\ [][Next]_vars

(***************************************************************************)
(* The queries and the mutations on a database in memory: a database built *)
(* on a path with no file, holding any data points appended since.         *)
(***************************************************************************)
BoundedSeq(S, n) == UNION { [1..m -> S] : m \in 0..n }

\* The keywords passed on to filter_data next to the criteria.
PassedCrits == StoredCrits

QueryKwargs ==
    { Kwargs(NoFlag, NoSubset, c) : c \in Crits }
        \cup { Kwargs(k, s, c) :
                k \in {NoFlag, Flag(TRUE)}, s \in SubsetPool,
                c \in PassedCrits }

FilterKwargs ==
    { Kwargs(k, s, c) :
        k \in {NoFlag, Flag(TRUE)}, s \in SubsetPool, c \in Crits }

Tols == {0, 1, 10}

\* The calls a query specification draws from: the call's name and its
\* arguments, as `last` records them.
Calls ==
    { Called("append_data", [data |-> d], Return) : d \in RecordPool }
        \cup { Called("remove_data", kw, Return) : kw \in QueryKwargs }
        \cup { Called("filter_data", kw, Return) : kw \in FilterKwargs }
        \cup { Called("get_data", kw, Return) : kw \in QueryKwargs }
        \cup { Called("get_prop", [prop |-> p, tol |-> t] @@ kw, Return) :
                p \in Keys, t \in Tols, kw \in QueryKwargs }

\* The **kwargs of the drawn call.
CallKwargs ==
    Kwargs([given |-> call.args.has_keep_idx, value |-> call.args.keep_idx],
           call.args.subset, call.args.crit)

QueryInit ==
    /\ fs = [p \in Paths |-> Absent]
    /\ \E content \in BoundedSeq(RecordPool, MaxLen) :
        db = [init(fs, "db", NoKwargs).obj EXCEPT !.content = content]
    /\ last = NoCall
    /\ call \in Calls

QueryAppend ==
    /\ call.op = "append_data"
    /\ AppendData({call.args.data}, MaxLen)
QueryRemove ==
    /\ call.op = "remove_data"
    /\ RemoveData({CallKwargs})
QueryFilter ==
    /\ call.op = "filter_data"
    /\ FilterData({CallKwargs})
QueryGetData ==
    /\ call.op = "get_data"
    /\ GetData({CallKwargs})
QueryGetProp ==
    /\ call.op = "get_prop"
    /\ GetProp({call.args.prop}, {call.args.tol}, {CallKwargs})

QueryNext ==
    \/ QueryAppend
    \/ QueryRemove
    \/ QueryFilter
    \/ QueryGetData
    \/ QueryGetProp

SpecQuery == QueryInit /\ [][QueryNext]_vars

(***************************************************************************)
(* The claims about the files, under Spec.                                 *)
(***************************************************************************)
\* What the file a constructor call named decodes to (the constructor
\* leaves the files alone, so this is what it read).
Decoded == Load(fs[last.args.file_name].text)

\* The last call was a constructor call on a file that holds a list.
LoadedList ==
    /\ last.op = "init"
    /\ fs[last.args.file_name].exists
    /\ Decoded.exc = ""
    /\ Decoded.val.type = "list"

\* C1: a database constructed on a file that exists and decodes to a list
\* of data points has `content` defined and equal, in content and order, to
\* the decoded list.
C1_ContentIsDecodedList ==
    LoadedList =>
        /\ last.exc = ""
        /\ db.has_content
        /\ db.content = Decoded.val.items

\* The step is a save that returned, with a backup asked for.
SavedWithBackup ==
    /\ last'.op = "save"
    /\ last'.exc = ""
    /\ last'.args.bak_suffix # ""

\* The backup file of the step's save.
BackupPath == db.file_name \o last'.args.bak_suffix

\* C2 (as claimed): after every successful save with a backup, whatever the
\* output path, the file at location + suffix holds what the bound file
\* held immediately before the save.
C2_BackupIsPreSaveContent ==
    [][SavedWithBackup => fs'[BackupPath] = fs[db.file_name]]_vars

\* C2 (amended): after every successful save with a backup whose output
\* path is not the backup file itself, the file at location + suffix holds
\* what the bound file held immediately before the save.
C2_BackupIsPreSaveUnlessOverwritten ==
    [][(/\ SavedWithBackup
        /\ ~(/\ last'.args.file_name.given
             /\ last'.args.file_name.name = BackupPath))
       => fs'[BackupPath] = fs[db.file_name]]_vars

\* A save to another path returned after the bound file had been saved
\* with other content than the backup now holds: the backup is an earlier
\* dump, the bound file a later one, and the output a third file.
C2_Witness ==
    /\ last.op = "save"
    /\ last.exc = ""
    /\ last.args.bak_suffix = ".bak"
    /\ last.args.file_name = Some("out")
    /\ fs["db.bak"] = fs["db"]
    /\ fs["db"].text.fmt = "yaml"
    /\ fs["db"].text.node.type = "list"
    /\ fs["out"] # fs["db.bak"]
    /\ Len(db.content) > 0

\* C8: a save with a backup asked for, while the bound file does not
\* exist, raises an I/O error (FileNotFoundError) before anything is
\* written: the files and the database are as they were.
C8_MissingSourceFailsFirst ==
    [][(/\ last'.op = "save"
        /\ last'.args.bak_suffix # ""
        /\ ~fs[db.file_name].exists)
       => (/\ last'.exc = "FileNotFoundError"
           /\ fs' = fs
           /\ db' = db)]_vars

\* A fresh database on a path with no file, one data point appended, save()
\* with the default backup: it raised in the copy, and no file exists.
C8_Witness ==
    /\ last.op = "save"
    /\ last.exc = "FileNotFoundError"
    /\ last.printed = ""
    /\ last.args.bak_suffix = ".bak"
    /\ ~last.args.file_name.given
    /\ db.has_content
    /\ Len(db.content) = 1
    /\ \A p \in Paths : ~fs[p].exists

\* C9: constructing a database on the bound location right after a
\* successful save to it yields the `content` that was saved.
C9_SaveLoadRoundTrip ==
    [][(/\ last.op = "save"
        /\ last.exc = ""
        /\ ~last.args.file_name.given
        /\ last'.op = "init"
        /\ last'.args.file_name = db.file_name)
       => (/\ last'.exc = ""
           /\ db'.has_content
           /\ db'.content = db.content)]_vars

\* C10: a constructor call on a file that exists and decodes to a mapping
\* or a scalar, a string included, raises the error that names the file
\* and asks for a list.
C10_NonSequenceRejected ==
    (/\ last.op = "init"
     /\ fs[last.args.file_name].exists
     /\ Decoded.exc = ""
     /\ Decoded.val.type \in {"dict", "int", "str"})
    => (/\ last.exc = "TypeError"
        /\ last.msg = MsgInvalidContent)

(***************************************************************************)
(* The claims about the queries and the mutations, under SpecQuery.        *)
(***************************************************************************)
\* A data point satisfies the criteria: no keyword that was passed is
\* missing from it, is a callable that answers something falsy on its
\* value, or is a plain value other than its value.
Satisfies(data, crit) ==
    ~\E k \in Keys :
        /\ crit[k].tag # "absent"
        /\ \/ k \notin DOMAIN data
           \/ crit[k].tag = "callable" /\ Call(crit[k].fn, data[k]) = 0
           \/ crit[k].tag = "lit" /\ data[k] # crit[k].val

\* The positions (from 1) of the data points of a list that satisfy the
\* criteria.
Matching(list, crit) ==
    { i \in 1..Len(list) : Satisfies(list[i], crit) }

\* The j-th smallest member of a set of positions.
Nth(I, j) == CHOOSE i \in I : Cardinality({ h \in I : h <= i }) = j

\* C3: filter_data returns exactly the data points of the scanned list (the
\* subset if one is given, else the content) that satisfy every criterion,
\* in the scanned order, none dropped or duplicated; with keep_idx each is
\* paired with its position in the scanned list; with no criteria it
\* returns them all.
C3_FilterReturnsMatches ==
    last.op = "filter_data" =>
        LET scanned == IF last.args.subset.given
                       THEN last.args.subset.items
                       ELSE db.content
            keep == last.args.has_keep_idx /\ last.args.keep_idx
            I == Matching(scanned, last.args.crit)
        IN  /\ last.exc = ""
            /\ Len(last.items) = Cardinality(I)
            /\ \A j \in 1..Len(last.items) :
                 last.items[j] = IF keep
                                 THEN <<Nth(I, j) - 1, scanned[Nth(I, j)]>>
                                 ELSE scanned[Nth(I, j)]
            /\ (last.args.crit = NoCriteria /\ ~keep)
                 => last.items = scanned

\* filter_data(keep_idx=True, x=1, e=<callable>) on three data points kept
\* the first and the third, with their indices, and dropped the second.
C3_Witness ==
    /\ last.op = "filter_data"
    /\ ~last.args.subset.given
    /\ last.args.has_keep_idx /\ last.args.keep_idx
    /\ last.args.crit["x"] = Lit(1)
    /\ last.args.crit["e"] = Pred("minus1")
    /\ Len(db.content) = 3
    /\ Len(last.items) = 2
    /\ last.items[1] = <<0, db.content[1]>>
    /\ last.items[2] = <<2, db.content[3]>>
    /\ db.content[1] # db.content[3]

\* C4: get_data with criteria returns the matching data point itself iff
\* exactly one data point of the content satisfies them; with none it
\* raises the not-found error, with two or more the ambiguity error, the
\* two being told apart (by their messages); the database is unchanged.
C4_GetDataUnique ==
    [][(last'.op = "get_data" /\ CriteriaOnly(last'.args)) =>
        LET M == Matching(db.content, last'.args.crit)
        IN  /\ (Cardinality(M) = 1) <=> (last'.exc = "")
            /\ Cardinality(M) = 1
                 => last'.items = <<db.content[Nth(M, 1)]>>
            /\ Cardinality(M) = 0
                 => last'.exc = "ValueError" /\ last'.msg = MsgNoData
            /\ Cardinality(M) > 1
                 => last'.exc = "ValueError" /\ last'.msg = MsgMultipleData
            /\ MsgNoData # MsgMultipleData
            /\ db' = db]_vars

\* get_data(x=<callable>) returned the second of three data points, the
\* only one with x other than 1.
C4_Witness ==
    /\ last.op = "get_data"
    /\ CriteriaOnly(last.args)
    /\ last.exc = ""
    /\ last.args.crit["x"] = Pred("minus1")
    /\ Len(db.content) = 3
    /\ last.items = <<db.content[2]>>
    /\ db.content[1] # db.content[2]

\* The values of a property on the data points that satisfy the criteria
\* and carry it.
Carrying(list, prop, crit) ==
    { i \in Matching(list, crit) : prop \in DOMAIN list[i] }

PropValues(list, prop, crit) ==
    { list[i][prop] : i \in Carrying(list, prop, crit) }

\* The call asks for a property the criteria do not mention.
PlainGetProp ==
    /\ last.op = "get_prop"
    /\ CriteriaOnly(last.args)
    /\ last.args.crit[last.args.prop].tag = "absent"

\* C5: get_prop with a tolerance other than zero, when two or more matching
\* data points carry the property and its values spread no wider than the
\* tolerance, returns a value between the least and the greatest of them.
C5_TolerantValueReturned ==
    (/\ PlainGetProp
     /\ last.args.tol # 0
     /\ Cardinality(Carrying(db.content, last.args.prop, last.args.crit)) >= 2
     /\ \A v, w \in PropValues(db.content, last.args.prop, last.args.crit) :
            v - w <= last.args.tol)
    => (/\ last.exc = ""
        /\ \E v, w \in PropValues(db.content, last.args.prop,
                                  last.args.crit) :
            v <= last.num /\ last.num <= w)

\* The messages of get_prop's errors of disagreement.
DisagreementMsgs == {MsgMoreThanOne, MsgExceeds}

\* C6: get_prop, whatever the tolerance, raises a not-found error, and no
\* error of disagreement or of another kind, when no data point that
\* satisfies the criteria carries the property.
C6_NothingFoundIsNotFound ==
    (/\ PlainGetProp
     /\ Carrying(db.content, last.args.prop, last.args.crit) = {})
    => (/\ last.exc = "ValueError"
        /\ last.msg \notin DisagreementMsgs
        /\ last.msg # MsgMaxEmpty)

\* C7: remove_data with criteria deletes exactly the data points that
\* satisfied them, keeps the others in their order, and returns how many
\* it deleted: the content is that much shorter, and filtering it with the
\* same criteria finds nothing.
C7_RemoveDeletesMatches ==
    [][(last'.op = "remove_data" /\ CriteriaOnly(last'.args)) =>
        LET crit == last'.args.crit
            unmatched(r) == ~Satisfies(r, crit)
        IN  /\ last'.exc = ""
            /\ db'.content = SelectSeq(db.content, unmatched)
            /\ last'.num = Cardinality(Matching(db.content, crit))
            /\ Len(db'.content) = Len(db.content) - last'.num
            /\ Matching(db'.content, crit) = {}
            /\ filter_data(db', FALSE, NoSubset, crit).items = <<>>
            /\ db' = [db EXCEPT !.content = db'.content]]_vars

\* remove_data(x=1) on three data points, the first and the third with
\* x = 1, left the second alone and returned 2.
C7_Witness ==
    /\ last.op = "remove_data"
    /\ CriteriaOnly(last.args)
    /\ last.args.crit = [NoCriteria EXCEPT !["x"] = Lit(1)]
    /\ last.exc = ""
    /\ last.num = 2
    /\ db.content = <<[x |-> 2]>>

(***************************************************************************)
(* The claim about what each call leaves alone, under Spec.                *)
(***************************************************************************)
\* The calls that only read the database.
QueryOps == {"filter_data", "get_data", "get_prop"}

\* The calls that change the database in memory.
MutationOps == {"append_data", "remove_data"}

\* C11: no file, the bound one, the backup or any other, changes in a step
\* that is not a save; filter_data, get_data, get_prop, append_data and
\* remove_data leave the files and the bound location as they were; and
\* filter_data, get_data and get_prop leave the whole database as it was,
\* whether they return or raise.
C11_OnlySaveWritesFiles ==
    [][/\ fs' # fs => last'.op = "save"
       /\ last'.op \in QueryOps \cup MutationOps
            => /\ fs' = fs
               /\ db'.file_name = db.file_name
       /\ last'.op \in QueryOps => db' = db]_vars

\* A second data point was appended after a save of the first: the bound
\* file still holds the list of one, the database holds two.
C11_Witness ==
    /\ last.op = "append_data"
    /\ last.exc = ""
    /\ Len(db.content) = 2
    /\ fs[db.file_name].exists
    /\ fs[db.file_name].text.node.type = "list"
    /\ Len(fs[db.file_name].text.node.items) = 1

====
